---- MODULE Spec2Model ----
(***************************************************************************)
(* A model of src/src/App.tsx: the App component of the weather page.      *)
(*                                                                         *)
(* The component owns four useState cells (city, forecast, loading, error).*)
(* fetchWeather is an async function with four awaits; every invocation is *)
(* a `call` with its own closure and its own position.  The code between   *)
(* two awaits runs to completion on the single UI thread, and the state    *)
(* updates it makes are one batched render, so each such run is one        *)
(* action.  Other events (typing, clicks, responses of other calls) can    *)
(* interleave at the awaits only.                                          *)
(*                                                                         *)
(* Beside the program's state the model keeps what an observer would note: *)
(* per invocation, whether another one overlapped it and how many requests *)
(* it issued; `origin`, the lookup the forecast on display came from; and  *)
(* `lastDone`, the state the previous submit left.                         *)
(***************************************************************************)
EXTENDS Integers, Sequences, FiniteSets, TLC

\* ------------------------------------------------------------------ bounds
\* How many invocations of fetchWeather may be suspended at an await at once.
MaxInFlight == 2
\* The largest number of days a forecast response carries.
MaxDays == 2

Calls == 1..MaxInFlight

\* ------------------------------------------------------------------ values
\* Text the user can put in the input field: nothing, blanks only, a city.
Typed == {"", " ", "berlin", "Bonn"}

\* GeoCodingResult (lines 11-15).  Numbers are carried as their numerals:
\* the code passes them on and never computes with them.
Berlin == [name |-> "Berlin", latitude |-> "52.52", longitude |-> "13.41"]
Bonn == [name |-> "Bonn", latitude |-> "50.73", longitude |-> "7.1"]

NoMatch == [name |-> "", latitude |-> "", longitude |-> ""]

\* What indexing an array past its end, or reading an absent field, yields.
Undefined == "undefined"

\* A value that is thrown or that a promise rejects with.  isError: whether it
\* is `instanceof Error`; hasMessage: whether it has a `message` property.
NetworkError == [isError |-> TRUE, hasMessage |-> TRUE, message |-> "Failed to fetch"]
EmptyError == [isError |-> TRUE, hasMessage |-> TRUE, message |-> ""]
PlainObject == [isError |-> FALSE, hasMessage |-> TRUE, message |-> "boom"]
PlainValue == [isError |-> FALSE, hasMessage |-> FALSE, message |-> ""]
SyntaxError == [isError |-> TRUE, hasMessage |-> TRUE, message |-> "Unexpected token <"]
TypeError == [isError |-> TRUE, hasMessage |-> TRUE, message |-> "Cannot read properties of undefined"]
NoThrow == [isError |-> FALSE, hasMessage |-> FALSE, message |-> "-"]

\* What fetch() can reject with (a test double can reject with any value).
Rejections == {NetworkError, EmptyError, PlainObject, PlainValue}

\* Response bodies.  json: whether the text parses as JSON.
NotJson == [json |-> FALSE, has |-> FALSE, results |-> <<>>, daily |-> <<>>]

\* GeoCodingResponse (lines 17-19): `results` may be absent.
GeoBody(has, results) ==
    [json |-> TRUE, has |-> has, results |-> results, daily |-> <<>>]

GeoBodies ==
    { GeoBody(FALSE, <<>>), GeoBody(TRUE, <<>>),
      GeoBody(TRUE, <<Berlin>>), GeoBody(TRUE, <<Bonn, Berlin>>) }

\* ForecastResponse (lines 21-29): five parallel arrays under `daily`.
Daily(time, tmax, tmin, prec, wind) ==
    [time |-> time, temperature_2m_max |-> tmax, temperature_2m_min |-> tmin,
     precipitation_sum |-> prec, windspeed_10m_max |-> wind]

WxBody(has, daily) ==
    [json |-> TRUE, has |-> has, results |-> <<>>, daily |-> daily]

Dates == <<"2024-05-01", "2024-05-02", "2024-05-03", "2024-05-04">>

\* Temperatures, precipitation sums and wind speeds.
Temperatures == {"7.5", "21"}

Rain == {"3.2"}

Wind == {"30"}

EmptyDaily == Daily(<<>>, <<>>, <<>>, <<>>, <<>>)

TwoDays ==
    Daily(<<"2024-05-01", "2024-05-02">>, <<"21", "7.5">>, <<"7.5", "7.5">>,
          <<"3.2", "3.2">>, <<"30", "30">>)

WxBodies ==
    { WxBody(FALSE, EmptyDaily), WxBody(TRUE, EmptyDaily), WxBody(TRUE, TwoDays) }

\* What `await fetch(...)` settles with: a rejection with `err`, or a
\* Response whose status is a success (ok) or not.  fetch() resolves on any
\* HTTP status; the body arrives later, when json() settles.
Resolves(ok) == [rejects |-> FALSE, ok |-> ok, err |-> NoThrow]

Rejects(err) == [rejects |-> TRUE, ok |-> FALSE, err |-> err]

FetchOutcomes == {Resolves(ok) : ok \in BOOLEAN} \cup {Rejects(err) : err \in Rejections}

\* The two services as the page sees them.  Live services can answer an
\* await with anything; a test double (fixed) answers each await with the one
\* outcome it was set up with.
AnyService ==
    [fixed |-> FALSE, geoFetch |-> Resolves(TRUE), geoBody |-> NotJson,
     wxFetch |-> Resolves(TRUE), wxBody |-> NotJson]

Mock(geoFetch, geoBody, wxFetch, wxBody) ==
    [fixed |-> TRUE, geoFetch |-> geoFetch, geoBody |-> geoBody,
     wxFetch |-> wxFetch, wxBody |-> wxBody]

\* ------------------------------------------------------------------- state
VARIABLES
    city,       \* useState<string>(""), line 32: the text of the input field
    forecast,   \* useState<WeatherDay[]>([]), line 33
    loading,    \* useState<boolean>(false), line 34
    error,      \* useState<string>(""), line 35
    calls,      \* the invocations of fetchWeather: position and locals
    net,        \* the HTTP requests that are outstanding
    service,    \* what the geocoding and forecast services can answer
    origin,     \* the canonical name of the lookup that `forecast` came from
    lastDone    \* what a test of two submits in a row notes of the first

vars == <<city, forecast, loading, error, calls, net, service, origin, lastDone>>

\* The four state cells as one value.
View == [city |-> city, forecast |-> forecast, loading |-> loading, error |-> error]

InitialView == [city |-> "", forecast |-> <<>>, loading |-> FALSE, error |-> ""]

\* An invocation slot that is not running.  pc: the await the invocation is
\* suspended at; geoOk, wxOk: `ok` of the Response locals geoRes, weatherRes;
\* match: the destructured first result (line 59); overlap: another
\* invocation was in flight during this one; nGeo, nWx: the requests this
\* invocation has issued.
IdleCall ==
    [pc |-> "idle", geoOk |-> TRUE, match |-> NoMatch, wxOk |-> TRUE,
     overlap |-> FALSE, nGeo |-> 0, nWx |-> 0]

InFlight(i) == calls[i].pc # "idle"

\* What each of the four awaits can settle with.
GeoFetchAnswers == IF service.fixed THEN {service.geoFetch} ELSE FetchOutcomes

GeoJsonAnswers == IF service.fixed THEN {service.geoBody} ELSE GeoBodies \cup {NotJson}

WxFetchAnswers == IF service.fixed THEN {service.wxFetch} ELSE FetchOutcomes

WxJsonAnswers == IF service.fixed THEN {service.wxBody} ELSE WxBodies \cup {NotJson}

\* Nothing noted yet.  query: the text the noted submit looked up; final: the
\* state it left; pending: the text of the submit that is running; again:
\* the noted submit looked up the same text as the one noted before it.
NothingDone ==
    [valid |-> FALSE, query |-> "", final |-> InitialView, pending |-> "",
     again |-> FALSE]

\* ---------------------------------------------------------- pure functions
\* JavaScript truthiness of a string: `city` in `e.key === "Enter" && city`
\* (line 104) and `!city` in `disabled={!city}` (line 111).
Truthy(s) == s # ""

\* The geocoding URL (lines 50-52): the text goes in as it is.
GeoUrl(name) ==
    [endpoint |-> "geocoding", name |-> name, latitude |-> "", longitude |-> ""]

\* The forecast URL (lines 62-64).
ForecastUrl(latitude, longitude) ==
    [endpoint |-> "forecast", name |-> "", latitude |-> latitude, longitude |-> longitude]

\* `!geoData.results || geoData.results.length === 0` (line 55).
NoResults(geoData) == ~geoData.has \/ Len(geoData.results) = 0

\* A slip in line 59: the last result instead of the first.
LastMatch(geoData) == geoData.results[Len(geoData.results)]

\* `geoData.results[0]` (line 59).
FirstMatch(geoData) == geoData.results[1]

\* arr[idx] in JavaScript, with idx counted from 1 here.
At(arr, idx) == IF idx \in 1..Len(arr) THEN arr[idx] ELSE Undefined

\* A slip in lines 69-70: tempMax and tempMin read from each other's array.
DaysSwapped(daily) ==
    [idx \in 1..Len(daily.time) |->
        [date |-> daily.time[idx],
         tempMax |-> At(daily.temperature_2m_min, idx),
         tempMin |-> At(daily.temperature_2m_max, idx),
         precipitation |-> At(daily.precipitation_sum, idx),
         windSpeed |-> At(daily.windspeed_10m_max, idx)]]

\* weatherData.daily.time.map((date, idx) => ({...})) (lines 67-73).
Days(daily) ==
    [idx \in 1..Len(daily.time) |->
        [date |-> daily.time[idx],
         tempMax |-> At(daily.temperature_2m_max, idx),
         tempMin |-> At(daily.temperature_2m_min, idx),
         precipitation |-> At(daily.precipitation_sum, idx),
         windSpeed |-> At(daily.windspeed_10m_max, idx)]]

\* The text the catch block shows (lines 78-82).
ErrorText(err) == IF err.isError THEN err.message ELSE "Fehler beim Laden"

\* `throw new Error("Ort nicht gefunden")` (line 56).
NotFoundError == [isError |-> TRUE, hasMessage |-> TRUE, message |-> "Ort nicht gefunden"]

\* ------------------------------------------------------------------ actions
Init ==
    /\ city = ""
    /\ forecast = <<>>
    /\ loading = FALSE
    /\ error = ""
    /\ calls = [i \in Calls |-> IdleCall]
    /\ net = {}
    /\ service = AnyService
    /\ origin = ""
    /\ lastDone = NothingDone

\* onChange={(e) => setCity(e.target.value)} (line 102).
onChange(text) ==
    /\ city' = text
    /\ UNCHANGED <<forecast, loading, error, calls, net, service, origin>>

\* A slip in clearSearch: line 41, setLoading(false), left out.
clearSearchKeepsLoading ==
    /\ city' = ""
    /\ forecast' = <<>>
    /\ error' = ""
    /\ origin' = ""
    /\ UNCHANGED <<loading, calls, net, service>>

\* clearSearch (lines 37-42).
clearSearch ==
    /\ city' = ""
    /\ forecast' = <<>>
    /\ error' = ""
    /\ loading' = FALSE
    /\ origin' = ""
    /\ UNCHANGED <<calls, net, service>>

\* A slip in lines 46-47: setError("") left out.
StartWritesKeepError ==
    /\ loading' = TRUE
    /\ UNCHANGED error

\* setLoading(true); setError("") (lines 46-47).
StartWrites ==
    /\ loading' = TRUE
    /\ error' = ""

\* fetchWeather up to its first await (lines 44-52): a new invocation takes
\* the first free slot and sends the `city` of the render it was made in.
fetchWeather ==
    /\ \E i \in Calls : ~InFlight(i)
    /\ LET i == CHOOSE j \in Calls : ~InFlight(j) /\ \A k \in 1..(j - 1) : InFlight(k)
           busy == \E k \in Calls : InFlight(k)
       IN  /\ StartWrites
           /\ net' = net \cup {[call |-> i, url |-> GeoUrl(city)]}
           /\ calls' = [k \in Calls |->
                 IF k = i
                 THEN [IdleCall EXCEPT !.pc = "geoFetch", !.overlap = busy, !.nGeo = 1]
                 ELSE IF InFlight(k) THEN [calls[k] EXCEPT !.overlap = TRUE]
                 ELSE calls[k]]
    /\ UNCHANGED <<city, forecast, service, origin>>

\* onKeyDown (lines 103-107).
onKeyDown(key) ==
    IF key = "Enter" /\ Truthy(city)
    THEN fetchWeather
    ELSE UNCHANGED <<city, forecast, loading, error, calls, net, service, origin>>

\* The "Suchen" button (lines 109-111): a disabled button takes no click.
onClickSuchen ==
    /\ Truthy(city)
    /\ fetchWeather

\* A slip after the catch block: the finally of lines 85-87 left out.
CatchKeepsLoading(i, err) ==
    /\ error' = ErrorText(err)
    /\ forecast' = <<>>
    /\ city' = ""
    /\ origin' = ""
    /\ calls' = [calls EXCEPT ![i] = IdleCall]
    /\ UNCHANGED loading

\* A slip in the catch block: line 84, setCity(""), left out.
CatchKeepsCity(i, err) ==
    /\ error' = ErrorText(err)
    /\ forecast' = <<>>
    /\ loading' = FALSE
    /\ origin' = ""
    /\ calls' = [calls EXCEPT ![i] = IdleCall]
    /\ UNCHANGED city

\* catch and finally (lines 77-87), with err the value caught.
Catch(i, err) ==
    /\ error' = ErrorText(err)
    /\ forecast' = <<>>
    /\ city' = ""
    /\ loading' = FALSE
    /\ origin' = ""
    /\ calls' = [calls EXCEPT ![i] = IdleCall]

\* A slip in the try block: line 76, setCity(name), left out.
FinishKeepsTypedText(i, days, name) ==
    /\ forecast' = days
    /\ loading' = FALSE
    /\ origin' = calls[i].match.name
    /\ calls' = [calls EXCEPT ![i] = IdleCall]
    /\ UNCHANGED <<city, error>>

\* The end of the try block and finally (lines 75-76, 85-87).
Finish(i, days, name) ==
    /\ forecast' = days
    /\ city' = name
    /\ loading' = FALSE
    /\ UNCHANGED error
    /\ origin' = calls[i].match.name
    /\ calls' = [calls EXCEPT ![i] = IdleCall]

\* A slip at the first await: a rejected geocoding fetch is sent again, up
\* to three times, before the catch block runs.
GeoFetchSettlesRetry(i, geoRes) ==
    /\ calls[i].pc = "geoFetch"
    /\ UNCHANGED service
    /\ IF geoRes.rejects /\ calls[i].nGeo < 3
       THEN /\ calls' = [calls EXCEPT ![i].nGeo = @ + 1]
            /\ UNCHANGED <<net, city, forecast, loading, error, origin>>
       ELSE /\ \E rq \in net :
                /\ rq.call = i
                /\ rq.url.endpoint = "geocoding"
                /\ net' = net \ {rq}
            /\ IF geoRes.rejects
               THEN Catch(i, geoRes.err)
               ELSE /\ calls' = [calls EXCEPT ![i].pc = "geoJson",
                                              ![i].geoOk = geoRes.ok]
                    /\ UNCHANGED <<city, forecast, loading, error, origin>>

\* `await fetch(geocoding url)` settles with geoRes (lines 50-52).
GeoFetchSettles(i, geoRes) ==
    /\ calls[i].pc = "geoFetch"
    /\ UNCHANGED service
    /\ \E rq \in net :
        /\ rq.call = i
        /\ rq.url.endpoint = "geocoding"
        /\ net' = net \ {rq}
    /\ IF geoRes.rejects
       THEN Catch(i, geoRes.err)
       ELSE /\ calls' = [calls EXCEPT ![i].pc = "geoJson", ![i].geoOk = geoRes.ok]
            /\ UNCHANGED <<city, forecast, loading, error, origin>>

\* `await geoRes.json()` settles with the body geoData (line 53), then lines
\* 55-64 run up to the next await.
GeoJsonSettles(i, geoData) ==
    /\ calls[i].pc = "geoJson"
    /\ UNCHANGED service
    /\ IF ~geoData.json
       THEN Catch(i, SyntaxError) /\ UNCHANGED net
       ELSE IF NoResults(geoData)
       THEN Catch(i, NotFoundError) /\ UNCHANGED net
       ELSE LET m == FirstMatch(geoData)
            IN  /\ net' = net \cup {[call |-> i,
                                     url |-> ForecastUrl(m.latitude, m.longitude)]}
                /\ calls' = [calls EXCEPT ![i].pc = "wxFetch", ![i].match = m,
                                          ![i].nWx = @ + 1]
                /\ UNCHANGED <<city, forecast, loading, error, origin>>

\* `await fetch(forecast url)` settles with weatherRes (lines 62-64).
WxFetchSettles(i, weatherRes) ==
    /\ calls[i].pc = "wxFetch"
    /\ UNCHANGED service
    /\ \E rq \in net :
        /\ rq.call = i
        /\ rq.url.endpoint = "forecast"
        /\ net' = net \ {rq}
    /\ IF weatherRes.rejects
       THEN Catch(i, weatherRes.err)
       ELSE /\ calls' = [calls EXCEPT ![i].pc = "wxJson", ![i].wxOk = weatherRes.ok]
            /\ UNCHANGED <<city, forecast, loading, error, origin>>

\* `await weatherRes.json()` settles with the body weatherData (line 65),
\* then lines 67-76 and finally.
WxJsonSettles(i, weatherData) ==
    /\ calls[i].pc = "wxJson"
    /\ UNCHANGED <<net, service>>
    /\ IF ~weatherData.json
       THEN Catch(i, SyntaxError)
       ELSE IF ~weatherData.has
       THEN Catch(i, TypeError)
       ELSE Finish(i, Days(weatherData.daily), calls[i].match.name)

\* The page in use: any event at any time, any answer the services can give.
Next ==
    \/ (\E text \in Typed : onChange(text)) /\ UNCHANGED lastDone
    \/ clearSearch /\ UNCHANGED lastDone
    \/ (\E key \in {"Enter", "a"} : onKeyDown(key)) /\ UNCHANGED lastDone
    \/ onClickSuchen /\ UNCHANGED lastDone
    \/ (\E i \in Calls : \E geoRes \in GeoFetchAnswers : GeoFetchSettles(i, geoRes))
          /\ UNCHANGED lastDone
    \/ (\E i \in Calls : \E geoData \in GeoJsonAnswers : GeoJsonSettles(i, geoData))
          /\ UNCHANGED lastDone
    \/ (\E i \in Calls : \E weatherRes \in WxFetchAnswers : WxFetchSettles(i, weatherRes))
          /\ UNCHANGED lastDone
    \/ (\E i \in Calls : \E weatherData \in WxJsonAnswers : WxJsonSettles(i, weatherData))
          /\ UNCHANGED lastDone

Spec == Init /\ [][Next]_vars

\* ------------------------------------------------- every request settles
\* The next await of invocation i settles.
Settle(i) ==
    /\ \/ \E geoRes \in GeoFetchAnswers : GeoFetchSettles(i, geoRes)
       \/ \E geoData \in GeoJsonAnswers : GeoJsonSettles(i, geoData)
       \/ \E weatherRes \in WxFetchAnswers : WxFetchSettles(i, weatherRes)
       \/ \E weatherData \in WxJsonAnswers : WxJsonSettles(i, weatherData)
    /\ UNCHANGED lastDone

\* The user looks up one place: the text typed into the field is "berlin";
\* the field is emptied by clearSearch and by a failed lookup.
NextLive ==
    \/ onChange("berlin") /\ UNCHANGED lastDone
    \/ clearSearch /\ UNCHANGED lastDone
    \/ (\E key \in {"Enter", "a"} : onKeyDown(key)) /\ UNCHANGED lastDone
    \/ onClickSuchen /\ UNCHANGED lastDone
    \/ \E i \in Calls : Settle(i)

\* The page in use, with services and a network that settle every request
\* and every body read: the continuation of a settled await always runs.
SpecLive == Init /\ [][NextLive]_vars /\ \A i \in Calls : WF_vars(Settle(i))

\* ------------------------------------------- two submits in a row, mocked
\* A test double of the two services: every await has one outcome, the same
\* each time.
Mocks ==
    { Mock(gf, gb, wf, wb) :
        gf \in {Resolves(TRUE), Rejects(NetworkError), Rejects(PlainValue)},
        gb \in GeoBodies \cup {NotJson},
        wf \in {Resolves(TRUE), Rejects(NetworkError), Rejects(PlainValue)},
        wb \in WxBodies \cup {NotJson} }

Started == \E i \in Calls : ~InFlight(i) /\ InFlight(i)'

Returned == \E i \in Calls : InFlight(i) /\ ~InFlight(i)'

OneAtATime == Cardinality({i \in Calls : InFlight(i)}) <= 1

\* What the test notes: the text a submit looks up when it starts, the state
\* it leaves when it returns, and whether it repeated the submit before it.
Note ==
    lastDone' =
        IF Started THEN [lastDone EXCEPT !.pending = city]
        ELSE IF Returned
        THEN [valid |-> TRUE, query |-> lastDone.pending, final |-> View',
              pending |-> "",
              again |-> lastDone.valid /\ lastDone.query = lastDone.pending]
        ELSE lastDone

InitTwice ==
    /\ city = ""
    /\ forecast = <<>>
    /\ loading = FALSE
    /\ error = ""
    /\ calls = [i \in Calls |-> IdleCall]
    /\ net = {}
    /\ service \in Mocks
    /\ origin = ""
    /\ lastDone = NothingDone

\* The page in the test: a submit starts only when none is in flight.
NextTwice ==
    \/ (\E text \in Typed : onChange(text)) /\ Note
    \/ clearSearch /\ Note
    \/ (\E key \in {"Enter", "a"} : onKeyDown(key)) /\ OneAtATime' /\ Note
    \/ onClickSuchen /\ OneAtATime' /\ Note
    \/ (\E i \in Calls : \E geoRes \in GeoFetchAnswers : GeoFetchSettles(i, geoRes))
          /\ Note
    \/ (\E i \in Calls : \E geoData \in GeoJsonAnswers : GeoJsonSettles(i, geoData))
          /\ Note
    \/ (\E i \in Calls : \E weatherRes \in WxFetchAnswers : WxFetchSettles(i, weatherRes))
          /\ Note
    \/ (\E i \in Calls : \E weatherData \in WxJsonAnswers : WxJsonSettles(i, weatherData))
          /\ Note

SpecTwice == InitTwice /\ [][NextTwice]_vars

\* ---------------------------------------------- one lookup, any `daily`
SeqsUpTo(n, S) == UNION {[1..k -> S] : k \in 0..n}

\* Every `daily` of up to MaxDays dates whose four arrays have any lengths up
\* to MaxDays, equal or not.
Dailies ==
    { Daily(SubSeq(Dates, 1, n), tmax, tmin, prec, wind) :
        n \in 0..MaxDays,
        tmax \in SeqsUpTo(MaxDays, Temperatures), tmin \in SeqsUpTo(MaxDays, Temperatures),
        prec \in SeqsUpTo(MaxDays, Rain), wind \in SeqsUpTo(MaxDays, Wind) }

InitZip ==
    /\ city = "berlin"
    /\ forecast = <<>>
    /\ loading = FALSE
    /\ error = ""
    /\ calls = [i \in Calls |-> IdleCall]
    /\ net = {}
    /\ \E daily \in Dailies :
          service = Mock(Resolves(TRUE), GeoBody(TRUE, <<Berlin>>),
                         Resolves(TRUE), WxBody(TRUE, daily))
    /\ origin = ""
    /\ lastDone = NothingDone

\* One lookup at a time, both services answering.
NextZip ==
    \/ onClickSuchen /\ OneAtATime' /\ UNCHANGED lastDone
    \/ (\E i \in Calls : \E geoRes \in GeoFetchAnswers : GeoFetchSettles(i, geoRes))
          /\ UNCHANGED lastDone
    \/ (\E i \in Calls : \E geoData \in GeoJsonAnswers : GeoJsonSettles(i, geoData))
          /\ UNCHANGED lastDone
    \/ (\E i \in Calls : \E weatherRes \in WxFetchAnswers : WxFetchSettles(i, weatherRes))
          /\ UNCHANGED lastDone
    \/ (\E i \in Calls : \E weatherData \in WxJsonAnswers : WxJsonSettles(i, weatherData))
          /\ UNCHANGED lastDone

SpecZip == InitZip /\ [][NextZip]_vars

\* ------------------------------------------------------------------ claims
Names == {Berlin.name, Bonn.name}

\* The forecast on display and the text beside it are of one lookup.
Matched == forecast # <<>> => city = origin

\* A step of onChange: the text changes and nothing else does.
TextEdited ==
    /\ city' # city
    /\ UNCHANGED <<forecast, loading, error, calls, net, origin>>

\* A geocoding body with zero matches: `results` absent, or an empty list.
ZeroMatches(geoData) == geoData.json /\ (~geoData.has \/ geoData.results = <<>>)

\* A geocoding body with at least one match.
SomeMatch(geoData) == geoData.json /\ geoData.has /\ Len(geoData.results) >= 1

\* A forecast body with at least one day.
SomeDays(weatherData) ==
    weatherData.json /\ weatherData.has /\ Len(weatherData.daily.time) >= 1

\* Text that is empty or whitespace only.
IsBlank(s) == s \in {"", " "}

\* A thrown value carries a message text.
CarriesMessage(err) == err.hasMessage /\ err.message # ""

NoneInFlight == \A i \in Calls : ~InFlight(i)

\* C1, as the specification states it: in every reachable state, whenever the
\* forecast is non-empty the city text is the canonical name returned by the
\* geocoding lookup that produced that forecast.
C1_AlwaysSamePair == Matched

\* C1, amended: a state in which the forecast on display is not beside the
\* canonical name of its lookup arises only by the user editing the text (a
\* step that changes the text alone), and lasts only as long as the forecast
\* is not written again: every submit that completes, and clear(), leaves
\* the pair matched.
C1_MismatchOnlyByEdit ==
    [][ ~Matched' =>
          /\ forecast' = forecast
          /\ origin' = origin
          /\ (Matched => TextEdited) ]_vars

\* A submit has just written a forecast and its canonical name while another
\* submit is still in flight.
C1_Witness ==
    /\ forecast # <<>>
    /\ city = origin
    /\ origin \in Names
    /\ ~loading
    /\ \E i \in Calls : InFlight(i)

\* C2: a submit, with no other submit in flight, whose geocoding body has
\* zero matches (results absent or empty) completes in the state error =
\* "Ort nicht gefunden", forecast empty, city text empty, loading false, and
\* has issued no forecast request.
C2_NotFound ==
    [][ \A i \in Calls : \A geoData \in GeoBodies :
          (ZeroMatches(geoData) /\ ~calls[i].overlap /\ GeoJsonSettles(i, geoData)) =>
             /\ View' = [city |-> "", forecast |-> <<>>, loading |-> FALSE,
                         error |-> "Ort nicht gefunden"]
             /\ ~InFlight(i)'
             /\ calls[i].nWx = 0
             /\ \A rq \in net' : rq.call # i ]_vars

\* The place was not found and nothing is in flight.
C2_Witness ==
    /\ error = "Ort nicht gefunden"
    /\ forecast = <<>>
    /\ city = ""
    /\ ~loading
    /\ NoneInFlight
    /\ net = {}

\* C3: when a request of a submit rejects, the submit completes with error
\* equal to the thrown value's message text when the value carries one and
\* to "Fehler beim Laden" when it carries none, with forecast and city text
\* empty, for every kind of thrown value.
C3_MessageOrGeneric ==
    [][ \A i \in Calls : \A err \in Rejections :
          (GeoFetchSettles(i, Rejects(err)) \/ WxFetchSettles(i, Rejects(err))) =>
             /\ error' = (IF CarriesMessage(err) THEN err.message ELSE "Fehler beim Laden")
             /\ forecast' = <<>>
             /\ city' = "" ]_vars

\* C4: a submit, by the Enter key or by the search button, with city text
\* that is empty or whitespace only changes none of the four state fields
\* and issues no request.
C4_BlankSubmitNoOp ==
    [][ (IsBlank(city) /\ (onKeyDown("Enter") \/ onClickSuchen)) =>
          UNCHANGED <<city, forecast, loading, error, net>> ]_vars

\* C5: clear() can be invoked in every reachable state, and the state right
\* after it is the initial one: city text empty, forecast empty, no error,
\* not loading.
C5_ClearResets ==
    /\ [](ENABLED clearSearch)
    /\ [][ clearSearch => View' = InitialView ]_vars

\* Every slot holds a submit in flight and the page shows the initial state:
\* clear() ran while they were loading.
C5_Witness ==
    /\ \A i \in Calls : InFlight(i)
    /\ View = InitialView

\* The `daily` the forecast service answers with, when it has one answer.
TheDaily == service.wxBody.daily

\* C6: for a forecast response whose date array has N entries the forecast
\* has N entries in the same order, entry i holding time[i] and the i-th
\* element of each of the four arrays (which is undefined past the end of a
\* shorter array); the lookup does not fail and nothing is truncated when
\* the arrays differ in length.
C6_Zip ==
    /\ error = ""
    /\ origin # "" =>
          /\ Len(forecast) = Len(TheDaily.time)
          /\ \A k \in 1..Len(TheDaily.time) :
                /\ forecast[k].date = TheDaily.time[k]
                /\ forecast[k].tempMax =
                      (IF k <= Len(TheDaily.temperature_2m_max)
                       THEN TheDaily.temperature_2m_max[k] ELSE Undefined)
                /\ forecast[k].tempMin =
                      (IF k <= Len(TheDaily.temperature_2m_min)
                       THEN TheDaily.temperature_2m_min[k] ELSE Undefined)
                /\ forecast[k].precipitation =
                      (IF k <= Len(TheDaily.precipitation_sum)
                       THEN TheDaily.precipitation_sum[k] ELSE Undefined)
                /\ forecast[k].windSpeed =
                      (IF k <= Len(TheDaily.windspeed_10m_max)
                       THEN TheDaily.windspeed_10m_max[k] ELSE Undefined)

\* A forecast of two days was produced from arrays of different lengths: one
\* shorter than the date array, one longer than another.
C6_Witness ==
    /\ origin = "Berlin"
    /\ Len(forecast) = 2
    /\ forecast[2].tempMax = Undefined
    /\ forecast[2].tempMin # Undefined
    /\ Len(TheDaily.precipitation_sum) = 0

\* C7: a submit, with no other submit in flight, whose geocoding body has at
\* least one match and whose forecast body has at least one day completes in
\* the state: forecast = the reshaped days (non-empty), city text = the name
\* of the first geocoding match, error empty, loading false.
C7_Success ==
    /\ [][ \A i \in Calls : \A geoData \in GeoBodies :
             (SomeMatch(geoData) /\ GeoJsonSettles(i, geoData)) =>
                calls'[i].match = geoData.results[1] ]_vars
    /\ [][ \A i \in Calls : \A weatherData \in WxBodies :
             (SomeDays(weatherData) /\ ~calls[i].overlap /\ WxJsonSettles(i, weatherData)) =>
                /\ forecast' # <<>>
                /\ Len(forecast') = Len(weatherData.daily.time)
                /\ \A k \in 1..Len(forecast') :
                      forecast'[k].date = weatherData.daily.time[k]
                /\ forecast' = Days(weatherData.daily)
                /\ city' = calls[i].match.name
                /\ error' = ""
                /\ loading' = FALSE
                /\ ~InFlight(i)' ]_vars

\* A lookup has succeeded and nothing is in flight.
C7_Witness ==
    /\ forecast # <<>>
    /\ city \in Names
    /\ city = origin
    /\ error = ""
    /\ ~loading
    /\ NoneInFlight

\* The texts the catch block can set the error message to.
CatchTexts ==
    {ErrorText(err) : err \in Rejections \cup {SyntaxError, TypeError, NotFoundError}}

\* C8: a submit that received a non-success HTTP response, from the
\* geocoding or from the forecast request, completes as a failure, whatever
\* the body: the error message is set by the catch block, the forecast is
\* empty and the city text is empty.
C8_NonSuccessFails ==
    [][ \A i \in Calls :
          (InFlight(i) /\ ~InFlight(i)' /\ (~calls[i].geoOk \/ ~calls[i].wxOk)) =>
             /\ error' \in CatchTexts
             /\ forecast' = <<>>
             /\ city' = "" ]_vars

\* C9: with both services answering the same each time, a submit that looks
\* up the same text as the submit before it, and starts after that one has
\* completed, leaves the same state (city text, forecast, error, loading).
C9_Idempotent ==
    [][ (Returned /\ lastDone.valid /\ lastDone.query = lastDone.pending) =>
          View' = lastDone.final ]_vars

\* The same text was looked up twice in a row and the second submit left the
\* state the first had left, with a forecast on display.
C9_Witness ==
    /\ lastDone.again
    /\ View = lastDone.final
    /\ forecast # <<>>
    /\ NoneInFlight

\* C10: a submit never has two requests outstanding; a forecast request
\* appears only in a step of a submit whose geocoding request has resolved
\* and that has no request outstanding; and the step in which the geocoding
\* body arrives with at least one match issues exactly one forecast request,
\* with the coordinates of the first match.
C10_Sequential ==
    /\ [](\A i \in Calls : Cardinality({rq \in net : rq.call = i}) <= 1)
    /\ [][ \A rq \in net' \ net :
             rq.url.endpoint = "forecast" =>
                /\ calls[rq.call].pc = "geoJson"
                /\ \A old \in net : old.call # rq.call ]_vars
    /\ [][ \A i \in Calls : \A geoData \in GeoBodies :
             (SomeMatch(geoData) /\ GeoJsonSettles(i, geoData)) =>
                net' = net \cup
                   {[call |-> i,
                     url |-> [endpoint |-> "forecast", name |-> "",
                              latitude |-> geoData.results[1].latitude,
                              longitude |-> geoData.results[1].longitude]]} ]_vars

\* A forecast request for the first of two matches is outstanding.
C10_Witness ==
    \E i \in Calls :
        /\ calls[i].pc = "wxFetch"
        /\ calls[i].match = Bonn
        /\ [call |-> i, url |-> ForecastUrl(Bonn.latitude, Bonn.longitude)] \in net

\* C11: every submit whose requests settle completes, on the success path
\* and on every failure path; the step in which it completes sets loading to
\* false, so with no overlapping submit loading is false when it completes.
C11_Completes ==
    /\ \A i \in Calls : []<>(~InFlight(i))
    /\ [][ \A i \in Calls : (InFlight(i) /\ ~InFlight(i)') => loading' = FALSE ]_vars

\* A submit has completed by a failure and the page is not loading.
C11_Witness ==
    /\ NoneInFlight
    /\ ~loading
    /\ error = TypeError.message
    /\ forecast = <<>>

\* C12: the step that starts a submit sets loading to true and the error
\* message to empty, and leaves the city text and the forecast as they were.
C12_StartFrame ==
    [][ Started => (loading' = TRUE /\ error' = "" /\ city' = city
                    /\ forecast' = forecast) ]_vars

\* A submit has started and the forecast and name of the lookup before it
\* are still on display.
C12_Witness ==
    /\ \A i \in Calls : InFlight(i) => calls[i].pc = "geoFetch"
    /\ \E i \in Calls : InFlight(i)
    /\ loading
    /\ error = ""
    /\ forecast # <<>>
    /\ city = origin

\* An invocation returns by its success path: the forecast body is JSON
\* and has `daily`.
Succeeds(i, weatherData) ==
    /\ weatherData.json
    /\ weatherData.has
    /\ WxJsonSettles(i, weatherData)

\* An invocation returns by its catch block.
Fails(i) ==
    /\ InFlight(i)
    /\ ~InFlight(i)'
    /\ \A weatherData \in WxJsonAnswers : ~Succeeds(i, weatherData)

\* What a failed submit leaves on the page.
FailureView ==
    /\ error' \in CatchTexts
    /\ forecast' = <<>>
    /\ city' = ""

\* C13: when the last of several overlapping submits completes, the page
\* shows exactly what that submit produces on its own: after a success the
\* forecast and name with an empty error, after a failure the error with an
\* empty forecast and city; loading is false.
C13_LastResponseWins ==
    [][ \A i \in Calls :
          (calls[i].overlap /\ NoneInFlight') =>
             /\ \A weatherData \in WxJsonAnswers :
                   Succeeds(i, weatherData) =>
                      /\ forecast' = Days(weatherData.daily)
                      /\ city' = calls[i].match.name
                      /\ error' = ""
                      /\ loading' = FALSE
             /\ Fails(i) => (FailureView /\ loading' = FALSE) ]_vars

\* The requests of invocation j that are outstanding.
Outstanding(j) == {rq \in net : rq.call = j}

\* Invocation j is where it was, with the requests it had.
Undisturbed(j) ==
    /\ calls'[j].pc = calls[j].pc
    /\ calls'[j].match = calls[j].match
    /\ {rq \in net' : rq.call = j} = Outstanding(j)

\* C14: clearSearch and the start of another submit leave every invocation
\* in flight where it was, with its request outstanding; when it completes
\* it writes its forecast and name, or its error with an empty forecast and
\* city, over whatever the page then shows; so while an invocation is in
\* flight the initial state left by clearSearch can be replaced by a settle
\* step alone.
C14_NoCancellation ==
    /\ [][ (clearSearch \/ Started) =>
              \A j \in Calls : InFlight(j) => Undisturbed(j) ]_vars
    /\ [][ \A i \in Calls :
              /\ \A weatherData \in WxJsonAnswers :
                    Succeeds(i, weatherData) =>
                       /\ forecast' = Days(weatherData.daily)
                       /\ city' = calls[i].match.name
              /\ Fails(i) => FailureView ]_vars
    /\ [](\A i \in Calls :
              (InFlight(i) /\ View = InitialView) =>
                  ENABLED (Settle(i) /\ View' # InitialView))

\* clearSearch has run while an invocation waits for its forecast body, and
\* the invocation is still there.
C14_Witness ==
    /\ View = InitialView
    /\ \E i \in Calls : calls[i].pc = "wxJson" /\ calls[i].match = Berlin

\* C15: a submit issues one geocoding request and at most one forecast
\* request; a request is issued only by the start of a submit (one, to the
\* geocoding service) or by an invocation in flight that goes on from its
\* geocoding body to its forecast fetch (one, to the forecast service); an
\* invocation that has returned has no request outstanding and issues none.
C15_NoRetry ==
    /\ [](\A i \in Calls :
             /\ InFlight(i) => (calls[i].nGeo = 1 /\ calls[i].nWx <= 1)
             /\ ~InFlight(i) => Outstanding(i) = {})
    /\ [][ (net' \ net # {}) =>
             \/ /\ Started
                /\ \E i \in Calls :
                      /\ ~InFlight(i)
                      /\ net' \ net = {[call |-> i, url |-> GeoUrl(city)]}
             \/ \E i \in Calls :
                   /\ calls[i].pc = "geoJson"
                   /\ calls'[i].pc = "wxFetch"
                   /\ calls[i].nWx = 0
                   /\ \E m \in {Berlin, Bonn} :
                         net' \ net =
                            {[call |-> i, url |-> ForecastUrl(m.latitude, m.longitude)]} ]_vars

\* A submit has failed at its forecast fetch, after its two requests, and
\* nothing is outstanding.
C15_Witness ==
    /\ NoneInFlight
    /\ net = {}
    /\ error = NetworkError.message
    /\ forecast = <<>>
    /\ ~loading

\* C16: in every reachable state, a non-empty error message implies an
\* empty forecast.
C16_ErrorMeansNoForecast == error # "" => forecast = <<>>

\* C17: in every reachable state, loading is true if an invocation is in
\* flight and false if none is.
C17_LoadingIffInFlight == loading <=> (\E i \in Calls : InFlight(i))

\* C18: a submit sends the city text of the moment it is triggered; typing
\* while it is in flight changes neither its request nor its progress; a
\* request leaves the network only when its own invocation moves on; and on
\* completion the text in the field, typed or not, is replaced by the
\* canonical name (success) or by the empty string (failure).
C18_TextAtTrigger ==
    /\ [][ Started =>
              \E i \in Calls :
                 /\ ~InFlight(i)
                 /\ InFlight(i)'
                 /\ Outstanding(i)' = {[call |-> i, url |-> GeoUrl(city)]} ]_vars
    /\ [][ (\E text \in Typed : onChange(text)) =>
              (net' = net /\ calls' = calls) ]_vars
    /\ [][ \A rq \in net \ net' : calls'[rq.call].pc # calls[rq.call].pc ]_vars
    /\ [][ \A i \in Calls :
              /\ \A weatherData \in WxJsonAnswers :
                    Succeeds(i, weatherData) => city' = calls[i].match.name
              /\ Fails(i) => city' = "" ]_vars

\* The request for "berlin" is outstanding and the field has since been
\* retyped to "Bonn".
C18_Witness ==
    /\ city = "Bonn"
    /\ \E rq \in net : rq.url = GeoUrl("berlin")

====
